---- MODULE Spec2Model ----
(***************************************************************************)
(* RPC redundancy layer of the sniper bot.                                 *)
(*                                                                         *)
(*   - WebSocketManager         (src/utils/managers/websocketManager.ts)   *)
(*     one streaming session: state machine, reconnect timer, transport.  *)
(*   - WebSocketManagerFactory  (.../websocketManagerFactory.ts)           *)
(*     the subscription channel manager: endpoint list, failed set,       *)
(*     primary-failure counter, session rebuild.                          *)
(*   - ConnectionManager        (connectionManager.ts, unnamed/part_003)   *)
(*     the request channel pool: probe, retry, rotate.                     *)
(*                                                                         *)
(* Node runs every callback to completion, and EventEmitter.emit calls the *)
(* listeners synchronously.  A handler is therefore one atomic action, and *)
(* the listeners it reaches are evaluated inside it, in call order: the    *)
(* operators below take the program state as a record and return the state *)
(* after the call.                                                         *)
(***************************************************************************)
EXTENDS Integers, Sequences, FiniteSets, TLC

\* ------------------------------------------------------------------ bounds
\* Longest streaming endpoint list tried.
MaxEndpoints == 2
\* Transports (new WebSocket) created in one run.
MaxSocks == 4
\* 'error' events one transport may deliver.
MaxErrs == 2

\* Longest streaming endpoint list tried with a caller that calls send() and
\* disconnect() whenever it likes.
MaxApiEndpoints == 1

\* Longest request endpoint list tried.
MaxPoolEndpoints == 2
\* getVersion calls in flight and retry timers pending beyond which no
\* health check starts a further probe.
MaxInFlight == 3
\* ConnectionManagers (and WebSocketManagerFactories) replaced by a second
\* init that are followed.
MaxReplaced == 1
\* getMintFromSignature calls waiting for their second request at a time.
MaxAwaiting == 1
\* Longest endpoint list handed to initConnectionManager and to
\* initWebSocketManagerFactory.
MaxInitEndpoints == 1

\* Longest endpoint list on which the rotation logic is run on its own, and
\* the number of times it is run in a row.
MaxTable == 3
MaxAdvances == 3

\* --------------------------------------------------------- configurations
\* options.maxRetries as passed by the caller; 0 is a caller's 0 and also
\* stands for "not given" and for Infinity (main passes Infinity): the
\* constructor treats the three alike, see SessionMaxRetries.
MaxRetriesOptions == {0, 1}
\* options.initialBackoff as passed by the caller; 0 stands for "not given".
InitialBackoffOptions == {1000}
\* options.initialBackoff a caller other than main may pass.
ApiInitialBackoffOptions == {0, 2000}
\* The values of jitter * 100 tried: Math.random() * 0.3 + 0.85.
JitterPercents == {85, 100, 115}
\* options.maxBackoff of the runs (main passes 30000; a low ceiling keeps the
\* escalation 1000, 1500, 2250, ceiling short).
MaxBackoffOption == 3000
\* config.maxRetries of the pool; 0 stands for "not given" (main gives none).
PoolMaxRetriesOptions == {0, 1}
\* The caller's Subscription Intent: one logsSubscribe message per enabled pool.
Intent == <<"msg1", "msg2">>

\* ------------------------------------------------------- program constants
maxPrimaryFailCount == 3
ResetBackoff == 1000
DefaultInitialBackoff == 1000
DefaultMaxBackoff == 30000
DefaultPoolMaxRetries == 3

VARIABLES
  \* configuration, fixed by Init
  wssEndpoints,         \* number of streaming endpoints; their indices are 0..n-1
  optMaxRetries,        \* options.maxRetries
  optInitialBackoff,    \* options.initialBackoff
  up,                   \* streaming endpoints that accept connections
  malformed,            \* streaming endpoints whose URL new WebSocket(url) rejects by throwing
  \* WebSocketManagerFactory
  sessions,             \* every WebSocketManager built so far, by creation order
  wsManager,            \* index in sessions of this.wsManager
  currentEndpointIndex,
  failedEndpoints,
  isReconnecting,
  primaryFailCount,
  callerOn,             \* the caller's listeners are attached to the factory
  \* the transports (ws objects) built so far, by creation order
  socks,
  \* the process has died of an uncaught exception
  crashed,
  \* observation of the last handler: the events of Observed it emitted
  log,
  \* observation of the last step: the caller's call it was, if any
  lastCall,
  \* observation of the last handler: the message, error and state_change
  \* events emitted by the sessions and by the factory, in emission order
  emits,
  \* history
  switches,             \* switchEndpoint calls so far
  reconnSeen,           \* Reconnecting transitions the factory saw on index 0 since the last Connected / rebuild
  attemptFails,         \* connection attempts of the current session that failed since its last open
  failsAtSwitch,        \* attemptFails when switchEndpoint was last entered, -1 before
  seenAtSwitch          \* reconnSeen when switchEndpoint was last entered, -1 before

wsVars == <<wssEndpoints, optMaxRetries, optInitialBackoff, up, malformed, sessions,
            wsManager, currentEndpointIndex, failedEndpoints, isReconnecting,
            primaryFailCount, callerOn, socks, crashed, log, lastCall, emits,
            switches, reconnSeen, attemptFails, failsAtSwitch, seenAtSwitch>>

VARIABLES
  \* configuration of the ConnectionManager, fixed by PoolInit
  httpsEndpoints,       \* number of request endpoints; their indices are 0..n-1
  poolOptMaxRetries,    \* config.maxRetries
  poolUp,               \* request endpoints that answer getVersion
  poolMalformed,        \* request endpoints whose URL new Connection(url) rejects by throwing
  \* ConnectionManager
  poolBuilt,            \* connectionManagerInstance is set
  poolIndex,            \* currentEndpointIndex
  connection,           \* endpoint the Connection was built for, -1 for null
  poolState,
  currentRetries,
  poolFailed,           \* failedEndpoints
  healthCheckIntervalId,\* the setInterval is active
  usedRecently,         \* Date.now() - lastTimeUsed <= 2 * healthCheckInterval
  probes,               \* getVersion calls in flight: <<kind, endpoint>> -> how many
  retryTimers,          \* pending setTimeout(connect, retryDelay) callbacks
  \* observation of the last step
  lastGet,              \* outcome of getConnection(): "client", "throws", or "none"
  poolEmitted,          \* endpoint carried by the connected event of the step, -1 if none
  \* history
  poolSwitched,         \* switchEndpoint ran in the last step
  endpointFails,        \* probes of the current endpoint (connect or health) that failed in a row
  failsAtPoolSwitch,    \* endpointFails when switchEndpoint was last entered, -1 before
  \* the module-level singletons
  replaced,             \* the ConnectionManagers initConnectionManager has stopped and replaced
  facadeCall,           \* the init / get function called in the last step and its outcome
  \* the request handlers
  handlers,             \* the Connection each handler singleton holds, and retries waiting
  requests              \* endpoints the requests issued in the last step went to

poolVars == <<httpsEndpoints, poolOptMaxRetries, poolUp, poolMalformed, handlers, poolBuilt, poolIndex, connection,
              poolState, currentRetries, poolFailed, healthCheckIntervalId, usedRecently,
              probes, retryTimers, lastGet, poolEmitted, poolSwitched, endpointFails,
              failsAtPoolSwitch, replaced, facadeCall, requests>>

VARIABLES
  \* main: the regional variables and the message handler of the subscription
  MAX_CONCURRENT,       \* config.concurrent_transactions
  activeTransactions,
  processing,           \* processTransaction calls that have not settled yet
  \* observation of the last step
  lastMessage,          \* what the message handler did: "ignored", "dropped", "processed", or "none"
  lastSettled,          \* how a processTransaction call settled: "resolved", "rejected", or "none"
  \* history
  handled               \* messages the handler has been called with so far

mainVars == <<MAX_CONCURRENT, activeTransactions, processing, lastMessage,
              lastSettled, handled>>

vars == <<wsVars, poolVars, mainVars>>

\* largest config.concurrent_transactions the message handler is run with
MaxConcurrent == 3
\* messages the handler is called with in one run
MaxMessages == 7

\* config.concurrent_transactions as shipped
ConfigConcurrentTransactions == 1

\* main's module has been loaded; no message has arrived
MainIdle ==
  /\ activeTransactions = 0
  /\ processing = 0
  /\ lastMessage = "none"
  /\ lastSettled = "none"
  /\ handled = 0

MainLoaded == MAX_CONCURRENT = ConfigConcurrentTransactions /\ MainIdle

\* ----------------------------------------------------------------- helpers
Min(a, b) == IF a <= b THEN a ELSE b

Infinity == -1

\* a >= b where b may be Infinity
AtLeast(a, b) == b # Infinity /\ a >= b

\* ConnectionState of websocketManager.ts
DISCONNECTED == "disconnected"
CONNECTING == "connecting"
CONNECTED == "connected"
RECONNECTING == "reconnecting"
ERROR == "error"
ConnectionState == {DISCONNECTED, CONNECTING, CONNECTED, RECONNECTING, ERROR}

\* One entry of log.
Ev(src, name, sid, arg) == [src |-> src, ev |-> name, sid |-> sid, arg |-> arg]

\* The program state handed through the handlers.
World == [sessions |-> sessions, wsManager |-> wsManager, idx |-> currentEndpointIndex,
          failed |-> failedEndpoints, isRec |-> isReconnecting, pfc |-> primaryFailCount,
          callerOn |-> callerOn, socks |-> socks, crashed |-> crashed, log |-> <<>>,
          emitted |-> FALSE, events |-> <<>>, switches |-> switches, reconnSeen |-> reconnSeen,
          attemptFails |-> attemptFails, failsAtSwitch |-> failsAtSwitch,
          seenAtSwitch |-> seenAtSwitch]

EmptyWorld == [sessions |-> <<>>, wsManager |-> 0, idx |-> 0, failed |-> {},
               isRec |-> FALSE, pfc |-> 0, callerOn |-> FALSE, socks |-> <<>>,
               crashed |-> FALSE, log |-> <<>>, emitted |-> FALSE, events |-> <<>>,
               switches |-> 0,
               reconnSeen |-> 0,
               attemptFails |-> 0, failsAtSwitch |-> -1, seenAtSwitch |-> -1]

\* The events kept in log.
Observed == {"max_retries_reached", "send"}

\* The entries of log that are no emitted events: the value a send()
\* returned, the run of switchEndpoint.
Returns == {"send", "switch"}

\* The events the factory forwards from its session to its own listeners.
Forwarded == {"message", "error", "state_change"}

\* One entry of emits: cur tells whether the emitter is the factory or the
\* session the factory holds in this.wsManager at the emission.
Emission(w, e) ==
  [src |-> e.src, ev |-> e.ev, sid |-> e.sid, arg |-> e.arg,
   cur |-> (e.src = "factory" \/ e.sid = w.wsManager)]

Note(w, e) ==
  LET w1 == IF e.ev \in Returns THEN w ELSE [w EXCEPT !.emitted = TRUE]
      w2 == IF e.ev \in Forwarded
            THEN [w1 EXCEPT !.events = Append(@, Emission(w, e))] ELSE w1
  IN IF e.ev \in Observed THEN [w2 EXCEPT !.log = Append(@, e)] ELSE w2

\* ------------------------------------------------------- WebSocketManager
\* constructor: options.maxRetries || Infinity
SessionMaxRetries == IF optMaxRetries = 0 THEN Infinity ELSE optMaxRetries
\* constructor: options.initialBackoff || 1000
SessionInitialBackoff == IF optInitialBackoff = 0 THEN DefaultInitialBackoff ELSE optInitialBackoff
\* constructor: options.maxBackoff || 30000
SessionMaxBackoff == IF MaxBackoffOption = 0 THEN DefaultMaxBackoff ELSE MaxBackoffOption

\* new WebSocketManager({url: endpoint, ...options}); listened: the factory's
\* listeners are attached to it (setupEventListeners of the factory).
NewSession(endpoint) ==
  [url |-> endpoint, state |-> DISCONNECTED, ws |-> 0, retryCount |-> 0,
   backoffTime |-> SessionInitialBackoff, timer |-> FALSE, listened |-> TRUE]

\* new WebSocket(url) with the session's four listeners attached.
NewSock(sid, endpoint) ==
  [owner |-> sid, ep |-> endpoint, rs |-> "connecting", listening |-> TRUE,
   errs |-> 0, sent |-> <<>>, opened |-> FALSE, ended |-> FALSE]

\* cleanUp(): clear the timer, strip and close the transport, drop the handle.
CleanUp(w, sid) ==
  LET k == w.sessions[sid].ws IN
  [w EXCEPT !.sessions[sid].timer = FALSE,
            !.sessions[sid].ws = 0,
            !.socks = IF k = 0 THEN @
                      ELSE [@ EXCEPT ![k].listening = FALSE,
                                     ![k].rs = IF @ \in {"connecting", "open"}
                                               THEN "closed" ELSE @]]

RECURSIVE SetState(_, _, _)
RECURSIVE HandleError(_, _)

\* A disconnect() that leaves the timer and the transport alone.
DisconnectNoCleanUp(w, sid) == SetState(w, sid, DISCONNECTED)

\* History: every connection attempt session sid has made so far is over.
RECURSIVE DiscardUpTo(_, _, _)
DiscardUpTo(ss, sid, k) ==
  IF k = 0 THEN ss
  ELSE DiscardUpTo(IF ss[k].owner = sid THEN [ss EXCEPT ![k].ended = TRUE] ELSE ss,
                   sid, k - 1)
Discard(w, sid) == [w EXCEPT !.socks = DiscardUpTo(@, sid, Len(@))]

\* disconnect()
Disconnect(w, sid) == SetState(CleanUp(Discard(w, sid), sid), sid, DISCONNECTED)

\* connect(): new WebSocket(url) throws on a URL it rejects, and the catch
\* hands the exception to handleError.
Connect(w, sid) ==
  IF w.sessions[sid].state \in {CONNECTING, CONNECTED} THEN w
  ELSE LET w1 == SetState(w, sid, CONNECTING)
           k == Len(w1.socks) + 1
       IN IF w1.sessions[sid].url \in malformed
          THEN HandleError(w1, sid)
          ELSE [w1 EXCEPT !.socks = Append(@, NewSock(sid, w1.sessions[sid].url)),
                          !.sessions[sid].ws = k]

\* ------------------------------------------------ WebSocketManagerFactory
\* The factory's own emit: the caller's listeners of main (state_change and
\* error only log; the open listener is CallerOnOpen).  An 'error' emitted
\* with no listener attached is thrown by EventEmitter.
FactoryEmit(w, name, arg) ==
  IF name = "error" /\ ~w.callerOn
  THEN [Note(w, Ev("factory", name, 0, arg)) EXCEPT !.crashed = TRUE]
  ELSE Note(w, Ev("factory", name, 0, arg))

\* A createWebSocketManager() that builds the session and does not connect it.
CreateWebSocketManagerIdle(w) ==
  LET old == w.wsManager
      w1 == IF old # 0
            THEN Disconnect([w EXCEPT !.sessions[old].listened = FALSE], old)
            ELSE w
  IN [w1 EXCEPT !.sessions = Append(@, NewSession(w1.idx)),
                !.wsManager = Len(w1.sessions) + 1]

\* A createWebSocketManager() that leaves the factory's listeners on the
\* session it replaces.
CreateWebSocketManagerKeepsListeners(w) ==
  LET old == w.wsManager
      w1 == IF old # 0 THEN Disconnect(w, old) ELSE w
      new == Len(w1.sessions) + 1
      w2 == [w1 EXCEPT !.sessions = Append(@, NewSession(w1.idx)),
                       !.wsManager = new]
  IN Connect(w2, new)

\* createWebSocketManager()
CreateWebSocketManager(w) ==
  LET old == w.wsManager
      w1 == IF old # 0
            THEN Disconnect([w EXCEPT !.sessions[old].listened = FALSE], old)
            ELSE w
      new == Len(w1.sessions) + 1
      w2 == [w1 EXCEPT !.sessions = Append(@, NewSession(w1.idx)),
                       !.wsManager = new]
  IN Connect(w2, new)

\* the while loop of switchEndpoint
RECURSIVE SkipFailed(_, _, _, _)
SkipFailed(failed, n, nextIndex, attemptCount) ==
  IF nextIndex \in failed /\ attemptCount < n
  THEN SkipFailed(failed, n, (nextIndex + 1) % n, attemptCount + 1)
  ELSE nextIndex

\* A switchEndpoint() that never clears the failed set.
SwitchEndpointNoClear(w) ==
  LET marked == w.failed \cup {w.idx}
      first == (w.idx + 1) % wssEndpoints
      nextIndex == SkipFailed(marked, wssEndpoints, first, 0)
      w1 == [w EXCEPT !.failed = marked,
                      !.isRec = FALSE,
                      !.idx = nextIndex,
                      !.switches = @ + 1,
                      !.failsAtSwitch = w.attemptFails,
                      !.seenAtSwitch = w.reconnSeen,
                      !.attemptFails = 0,
                      !.reconnSeen = 0]
  IN CreateWebSocketManager(Note(w1, Ev("factory", "switch", 0, "")))

\* switchEndpoint()
SwitchEndpoint(w) ==
  LET marked == w.failed \cup {w.idx}
      allFailed == Cardinality(marked) >= wssEndpoints
      failed2 == IF allFailed THEN {} ELSE marked
      first == (w.idx + 1) % wssEndpoints
      nextIndex == SkipFailed(failed2, wssEndpoints, first, 0)
      w1 == [w EXCEPT !.failed = failed2,
                      !.isRec = FALSE,
                      !.pfc = IF allFailed THEN 0 ELSE @,
                      !.idx = nextIndex,
                      !.switches = @ + 1,
                      !.failsAtSwitch = w.attemptFails,
                      !.seenAtSwitch = w.reconnSeen,
                      !.attemptFails = 0,
                      !.reconnSeen = 0]
  IN CreateWebSocketManager(Note(w1, Ev("factory", "switch", 0, "")))

\* the state_change listener the factory attaches to its session
FactoryOnStateChange(w, state) ==
  LET seen == [w EXCEPT !.reconnSeen =
                 IF state = RECONNECTING /\ w.idx = 0 THEN @ + 1
                 ELSE IF state = CONNECTED THEN 0 ELSE @]
  IN
  IF state = RECONNECTING /\ ~seen.isRec
  THEN LET w1 == [seen EXCEPT !.isRec = TRUE] IN
       IF w1.idx = 0
       THEN LET w2 == [w1 EXCEPT !.pfc = @ + 1] IN
            IF w2.pfc >= maxPrimaryFailCount
            THEN SwitchEndpoint(w2)
            ELSE FactoryEmit(w2, "state_change", state)
       ELSE FactoryEmit(w1, "state_change", state)
  ELSE IF state = CONNECTED
  THEN FactoryEmit([seen EXCEPT !.isRec = FALSE], "state_change", state)
  ELSE FactoryEmit(seen, "state_change", state)

\* A handleConnectionError() that counts and switches at any index.
HandleConnectionErrorAnyIndex(w) ==
  LET w1 == FactoryEmit(w, "error", "") IN
  IF w1.crashed THEN w1
  ELSE LET w2 == [w1 EXCEPT !.pfc = @ + 1] IN
       IF w2.pfc >= maxPrimaryFailCount /\ wssEndpoints > 1
       THEN SwitchEndpoint(w2)
       ELSE w2

\* handleConnectionError(): the throw of an unheard 'error' skips the rest.
HandleConnectionError(w) ==
  LET w1 == FactoryEmit(w, "error", "") IN
  IF w1.crashed THEN w1
  ELSE IF w1.idx = 0
  THEN LET w2 == [w1 EXCEPT !.pfc = @ + 1] IN
       IF w2.pfc >= maxPrimaryFailCount /\ wssEndpoints > 1
       THEN SwitchEndpoint(w2)
       ELSE w2
  ELSE w1

\* A setState() that writes the field and emits nothing.
SetStateSilent(w, sid, state) == [w EXCEPT !.sessions[sid].state = state]

\* ------------------------------------- WebSocketManager, emitting methods
\* setState(): emits state_change to the listeners still attached.
SetState(w, sid, state) ==
  IF w.sessions[sid].state = state THEN w
  ELSE LET w1 == Note([w EXCEPT !.sessions[sid].state = state],
                      Ev("session", "state_change", sid, state))
       IN IF w1.sessions[sid].listened THEN FactoryOnStateChange(w1, state) ELSE w1

\* handleError(): an 'error' emitted by a session nobody listens to is thrown.
HandleError(w, sid) ==
  LET w1 == SetState(w, sid, ERROR)
      w2 == Note(w1, Ev("session", "error", sid, ""))
  IN IF w2.sessions[sid].listened THEN HandleConnectionError(w2)
     ELSE [w2 EXCEPT !.crashed = TRUE]

\* attemptReconnect(): delay = Math.min(backoffTime * jitter, maxBackoff), in
\* hundredths of a millisecond for a jitter given in percent.
Delay100(backoffTime, jitterPercent) ==
  Min(backoffTime * jitterPercent, SessionMaxBackoff * 100)

\* attemptReconnect(): the fields are written after the listeners of
\* state_change have returned.
AttemptReconnect(w, sid) ==
  IF AtLeast(w.sessions[sid].retryCount, SessionMaxRetries)
  THEN Note(SetState(w, sid, DISCONNECTED), Ev("session", "max_retries_reached", sid, ""))
  ELSE LET w1 == SetState(w, sid, RECONNECTING)
       IN [w1 EXCEPT !.sessions[sid].retryCount = @ + 1,
                     !.sessions[sid].timer = TRUE]

\* A send() that tests the transport handle only, not the state.
SessionSendAnyState(w, sid, data) ==
  LET s == w.sessions[sid] IN
  IF s.ws = 0
  THEN Note(w, Ev("session", "send", sid, "false"))
  ELSE IF w.socks[s.ws].rs = "connecting"
  THEN Note(HandleError(w, sid), Ev("session", "send", sid, "false"))
  ELSE Note([w EXCEPT !.socks[s.ws].sent = Append(@, data)],
            Ev("session", "send", sid, "true"))

\* send(): ws.send throws on a transport that is still CONNECTING.
SessionSend(w, sid, data) ==
  LET s == w.sessions[sid] IN
  IF s.state # CONNECTED \/ s.ws = 0
  THEN Note(w, Ev("session", "send", sid, "false"))
  ELSE IF w.socks[s.ws].rs = "connecting"
  THEN Note(HandleError(w, sid), Ev("session", "send", sid, "false"))
  ELSE Note([w EXCEPT !.socks[s.ws].sent = Append(@, data)],
            Ev("session", "send", sid, "true"))

\* send() of the factory
FactorySend(w, data) ==
  IF w.wsManager = 0 THEN Note(w, Ev("factory", "send", 0, "false"))
  ELSE SessionSend(w, w.wsManager, data)

\* main: wsManagerFactory.on("open", ...) sends one subscribe message per pool
RECURSIVE CallerOnOpen(_, _)
CallerOnOpen(w, i) ==
  IF i > Len(Intent) \/ w.crashed THEN w
  ELSE CallerOnOpen(FactorySend(w, Intent[i]), i + 1)

\* An open listener that forwards 'open' and leaves the counter as it is.
FactoryOnOpenKeepsCount(w) ==
  LET w1 == FactoryEmit(w, "open", "")
  IN IF w1.callerOn THEN CallerOnOpen(w1, 1) ELSE w1

\* An open listener that resets the counter without forwarding 'open'.
FactoryOnOpenSilent(w) == [w EXCEPT !.pfc = 0]

\* the open listener the factory attaches to its session
FactoryOnOpen(w) ==
  LET w1 == FactoryEmit(w, "open", "")
      w2 == IF w1.callerOn THEN CallerOnOpen(w1, 1) ELSE w1
  IN [w2 EXCEPT !.pfc = 0]

\* ------------------------------------------------------------------ state
\* The handler has run: w is the state it leaves.  A run that would need more
\* transports than MaxSocks is cut off.
WsFields(w0, call) == \E w \in {w0} :
  /\ sessions' = w.sessions
  /\ wsManager' = w.wsManager
  /\ currentEndpointIndex' = w.idx
  /\ failedEndpoints' = w.failed
  /\ isReconnecting' = w.isRec
  /\ primaryFailCount' = w.pfc
  /\ callerOn' = w.callerOn
  /\ socks' = w.socks
  /\ crashed' = w.crashed
  /\ log' = w.log
  /\ lastCall' = call
  /\ emits' = w.events
  /\ switches' = w.switches
  /\ reconnSeen' = w.reconnSeen
  /\ attemptFails' = w.attemptFails
  /\ failsAtSwitch' = w.failsAtSwitch
  /\ seenAtSwitch' = w.seenAtSwitch
  /\ Len(w.socks) <= MaxSocks

CommitCall(w0, call) ==
  /\ WsFields(w0, call)
  /\ UNCHANGED <<wssEndpoints, optMaxRetries, optInitialBackoff, up, malformed>>
  /\ UNCHANGED <<poolVars, mainVars>>

\* A handler that is no call of the caller has run.
NoCall == [op |-> "none", ret |-> "", emitted |-> FALSE]
Commit(w0) == CommitCall(w0, NoCall)

\* initWebSocketManagerFactory(...) has returned and the caller has attached
\* its listeners and called wsManagerFactory.connect(), as main does (a
\* no-op: the session built by the constructor is Connecting).  An 'error'
\* emitted inside the constructor finds no listener and is thrown.
WsBuilt ==
  /\ LET w == CreateWebSocketManager(EmptyWorld) IN
     /\ sessions = w.sessions
     /\ wsManager = w.wsManager
     /\ currentEndpointIndex = w.idx
     /\ failedEndpoints = w.failed
     /\ isReconnecting = w.isRec
     /\ primaryFailCount = w.pfc
     /\ socks = w.socks
     /\ crashed = w.crashed
  /\ callerOn = TRUE
  /\ log = <<>>
  /\ lastCall = NoCall
  /\ emits = <<>>
  /\ switches = 0
  /\ reconnSeen = 0
  /\ attemptFails = 0
  /\ failsAtSwitch = -1
  /\ seenAtSwitch = -1

\* main is the caller: the URLs have passed validateEnv.
WsInit ==
  /\ wssEndpoints \in 1..MaxEndpoints
  /\ optMaxRetries \in MaxRetriesOptions
  /\ optInitialBackoff \in InitialBackoffOptions
  /\ up \in SUBSET (0..(wssEndpoints - 1))
  /\ malformed = {}
  /\ WsBuilt

\* ---------------------------------------------------------------- actions
Live(k) == socks[k].listening /\ socks[k].rs \in {"connecting", "open"}

\* An open handler that leaves retryCount as it is.
SockOpenKeepsCount(k) ==
  /\ ~crashed
  /\ socks[k].listening /\ socks[k].rs = "connecting" /\ socks[k].errs = 0
  /\ socks[k].ep \in up
  /\ LET sid == socks[k].owner
         w0 == [World EXCEPT !.socks[k].rs = "open",
                             !.socks[k].opened = TRUE,
                             !.attemptFails = IF sid = wsManager THEN 0 ELSE @]
         w1 == SetState(w0, sid, CONNECTED)
         w2 == [w1 EXCEPT !.sessions[sid].backoffTime = ResetBackoff]
         w3 == Note(w2, Ev("session", "open", sid, ""))
     IN Commit(IF w3.sessions[sid].listened THEN FactoryOnOpen(w3) ELSE w3)

\* ws.on("open")
SockOpen(k) ==
  /\ ~crashed
  /\ socks[k].listening /\ socks[k].rs = "connecting" /\ socks[k].errs = 0
  /\ socks[k].ep \in up
  /\ LET sid == socks[k].owner
         w0 == [World EXCEPT !.socks[k].rs = "open",
                             !.socks[k].opened = TRUE,
                             !.attemptFails = IF sid = wsManager THEN 0 ELSE @]
         w1 == SetState(w0, sid, CONNECTED)
         w2 == [w1 EXCEPT !.sessions[sid].retryCount = 0,
                          !.sessions[sid].backoffTime = ResetBackoff]
         w3 == Note(w2, Ev("session", "open", sid, ""))
     IN Commit(IF w3.sessions[sid].listened THEN FactoryOnOpen(w3) ELSE w3)

\* ws.on("message")
SockMessage(k) ==
  /\ ~crashed
  /\ socks[k].listening /\ socks[k].rs = "open"
  /\ LET sid == socks[k].owner
         w1 == Note(World, Ev("session", "message", sid, ""))
     IN Commit(IF w1.sessions[sid].listened THEN FactoryEmit(w1, "message", "") ELSE w1)

\* ws.on("error"): a connection attempt to an endpoint that accepts
\* connections does not fail; an open connection can fail at any time.
SockError(k) ==
  /\ ~crashed
  /\ Live(k) /\ socks[k].errs < MaxErrs
  /\ socks[k].rs = "connecting" => socks[k].ep \notin up
  /\ LET sid == socks[k].owner
         failedNow == socks[k].rs = "connecting" /\ socks[k].errs = 0 /\ sid = wsManager
         w0 == [World EXCEPT !.socks[k].errs = @ + 1,
                             !.attemptFails = IF failedNow THEN @ + 1 ELSE @]
     IN Commit(HandleError(w0, sid))

\* ws.on("close")
SockClose(k) ==
  /\ ~crashed
  /\ Live(k)
  /\ (socks[k].rs = "connecting" /\ socks[k].errs = 0) => socks[k].ep \notin up
  /\ LET sid == socks[k].owner
         failedNow == socks[k].rs = "connecting" /\ socks[k].errs = 0 /\ sid = wsManager
         w0 == [World EXCEPT !.socks[k].rs = "closed",
                             !.socks[k].listening = FALSE,
                             !.socks[k].ended = TRUE,
                             !.attemptFails = IF failedNow THEN @ + 1 ELSE @]
         w1 == CleanUp(w0, sid)
     IN Commit(IF w1.sessions[sid].state # DISCONNECTED
               THEN AttemptReconnect(w1, sid) ELSE w1)

\* the callback of reconnectTimer
TimerFire(sid) ==
  /\ ~crashed
  /\ sessions[sid].timer
  /\ LET w0 == [World EXCEPT !.sessions[sid].timer = FALSE]
         w1 == Connect(w0, sid)
     IN Commit([w1 EXCEPT !.sessions[sid].backoffTime =
                   Min((@ * 3) \div 2, SessionMaxBackoff)])

\* disconnect() of the factory
DisconnectFactory(w) ==
  LET w1 == IF w.wsManager # 0 THEN Disconnect(w, w.wsManager) ELSE w
  IN [w1 EXCEPT !.callerOn = FALSE]

\* wsManagerFactory.disconnect() called by main on SIGINT / SIGTERM
FactoryDisconnect ==
  /\ ~crashed
  /\ callerOn
  /\ Commit(DisconnectFactory(World))

\* ------------------------------------------- a caller other than main
\* initWebSocketManagerFactory(wssEndpoints, options) called with any
\* endpoint list and options: an endpoint accepts connections, refuses them,
\* or has a URL the transport constructor rejects.
ApiInit ==
  /\ wssEndpoints \in 1..MaxEndpoints
  /\ optMaxRetries \in MaxRetriesOptions
  /\ optInitialBackoff \in ApiInitialBackoffOptions
  /\ up \in SUBSET (0..(wssEndpoints - 1))
  /\ malformed \in SUBSET ((0..(wssEndpoints - 1)) \ up)
  /\ WsBuilt

\* what the last send() of a handler returned
LastReturn(l) == IF l = <<>> THEN "" ELSE l[Len(l)].arg

\* The caller calls send(data) of the factory before it tears the factory
\* down, at any time at which the current session is not Connected (on a
\* Connected session send() is exercised by the replay of CallerOnOpen).
CallerSend ==
  /\ ~crashed
  /\ callerOn
  /\ wsManager = 0 \/ sessions[wsManager].state # CONNECTED
  /\ LET w == FactorySend(World, Intent[1])
     IN CommitCall(w, [op |-> "send", ret |-> LastReturn(w.log), emitted |-> w.emitted])

\* The caller calls disconnect() of the factory, at any time and again.
CallerDisconnect ==
  /\ ~crashed
  /\ LET w == DisconnectFactory(World)
     IN CommitCall(w, [op |-> "disconnect", ret |-> "", emitted |-> w.emitted])

\* connect() of the factory
ConnectFactory(w) ==
  IF w.wsManager = 0 THEN CreateWebSocketManager(w) ELSE Connect(w, w.wsManager)

\* The caller calls connect() of the factory, at any time and again; on a
\* session that is Connecting or Connected the call returns at once.
CallerConnect ==
  /\ ~crashed
  /\ callerOn
  /\ wsManager # 0 => sessions[wsManager].state \notin {CONNECTING, CONNECTED}
  /\ \E w \in {ConnectFactory(World)} :
       CommitCall(w, [op |-> "connect", ret |-> "", emitted |-> w.emitted])

\* ------------------------------------------------------- ConnectionManager
\* ConnectionState of connectionManager.ts
P_CONNECTING == "connecting"
P_CONNECTED == "connected"
P_FAILED == "failed"
P_SWITCHING == "switching"

\* constructor: config.maxRetries || 3
PoolMaxRetries == IF poolOptMaxRetries = 0 THEN DefaultPoolMaxRetries ELSE poolOptMaxRetries

ProbeKeys == {"connect", "health"} \X (-1..(MaxPoolEndpoints + 1))
NoProbes == [key \in ProbeKeys |-> 0]
InFlight(pr) == {key \in ProbeKeys : pr[key] > 0}
RECURSIVE SumOver(_, _)
SumOver(pr, keys) ==
  IF keys = {} THEN 0
  ELSE LET key == CHOOSE x \in keys : TRUE IN pr[key] + SumOver(pr, keys \ {key})
CountInFlight(pr) == SumOver(pr, ProbeKeys)

\* The pool's state handed through its handlers.
Pool == [idx |-> poolIndex, connection |-> connection, state |-> poolState,
         retries |-> currentRetries, failed |-> poolFailed, probes |-> probes,
         timers |-> retryTimers, emitted |-> -1, switched |-> FALSE,
         endpointFails |-> endpointFails, failsAtSwitch |-> failsAtPoolSwitch]

\* the fields before the constructor body runs
EmptyPool == [idx |-> 0, connection |-> -1, state |-> P_CONNECTING, retries |-> 0,
              failed |-> {}, probes |-> NoProbes, timers |-> 0, emitted |-> -1,
              switched |-> FALSE, endpointFails |-> 0, failsAtSwitch |-> -1]

\* testConnection(): getVersion is called on the Connection held at the call
\* (-1: there is none, and the answer is false).
TestConnection(p, kind) ==
  [p EXCEPT !.probes[<<kind, p.connection>>] = @ + 1]

\* connect(): new Connection(endpoint) throws on a URL it rejects, before
\* this.connection is assigned, and the catch hands the exception to
\* handleConnectionFailure.
RECURSIVE HandleConnectionFailure(_)
PoolConnect(p) ==
  IF p.idx \in poolMalformed
  THEN HandleConnectionFailure([p EXCEPT !.state = P_CONNECTING])
  ELSE TestConnection([p EXCEPT !.state = P_CONNECTING, !.connection = p.idx], "connect")

\* A switchEndpoint() of the pool that walks on from the index after the
\* current one without looking at the failed set.
PoolSwitchEndpointNoSkip(p) ==
  LET marked == p.failed \cup {p.idx}
      allFailed == Cardinality(marked) > httpsEndpoints
  IN PoolConnect([p EXCEPT !.failed = IF allFailed THEN {} ELSE marked,
                           !.state = P_SWITCHING,
                           !.idx = (p.idx + 1) % httpsEndpoints,
                           !.switched = TRUE,
                           !.failsAtSwitch = p.endpointFails,
                           !.endpointFails = 0])

\* switchEndpoint() of the pool
PoolSwitchEndpoint(p) ==
  LET marked == p.failed \cup {p.idx}
      allFailed == Cardinality(marked) >= httpsEndpoints
      failed2 == IF allFailed THEN {} ELSE marked
      first == (p.idx + 1) % httpsEndpoints
      nextIndex == SkipFailed(failed2, httpsEndpoints, first, 0)
  IN PoolConnect([p EXCEPT !.failed = failed2,
                           !.state = P_SWITCHING,
                           !.idx = nextIndex,
                           !.switched = TRUE,
                           !.failsAtSwitch = p.endpointFails,
                           !.endpointFails = 0])

\* handleConnectionFailure()
HandleConnectionFailure(p) ==
  IF p.retries < PoolMaxRetries
  THEN [p EXCEPT !.state = P_FAILED, !.retries = @ + 1, !.timers = @ + 1]
  ELSE PoolSwitchEndpoint([p EXCEPT !.state = P_FAILED, !.retries = 0])

\* the continuation of testConnection() in connect()
ConnectProbed(p, endpoint, isHealthy) ==
  IF isHealthy
  THEN [p EXCEPT !.state = P_CONNECTED, !.retries = 0, !.emitted = endpoint,
                 !.endpointFails = IF endpoint = p.idx THEN 0 ELSE @]
  ELSE HandleConnectionFailure(
         [p EXCEPT !.endpointFails = IF endpoint = p.idx THEN @ + 1 ELSE @])

\* the continuation of testConnection() in the health check
HealthProbed(p, endpoint, isHealthy) ==
  IF isHealthy
  THEN [p EXCEPT !.endpointFails = IF endpoint = p.idx THEN 0 ELSE @]
  ELSE HandleConnectionFailure(
         [p EXCEPT !.endpointFails = IF endpoint = p.idx THEN @ + 1 ELSE @])

\* tokenCheckManagerInstance and signatureHandlerInstance are null (-1: no
\* instance; otherwise the endpoint its this.connection was built for), and
\* no getMintFromSignature call is waiting for its second request.
NoHandlers == [tokenCheck |-> -1, signature |-> -1, awaiting |-> 0]

\* no init or get function of the singletons ran in the step
NoFacadeCall == [fn |-> "none", n |-> 0, ret |-> ""]

PoolFields(p0) == \E p \in {p0} :
  /\ poolIndex' = p.idx
  /\ connection' = p.connection
  /\ poolState' = p.state
  /\ currentRetries' = p.retries
  /\ poolFailed' = p.failed
  /\ probes' = p.probes
  /\ retryTimers' = p.timers
  /\ poolEmitted' = p.emitted
  /\ poolSwitched' = p.switched
  /\ endpointFails' = p.endpointFails
  /\ failsAtPoolSwitch' = p.failsAtSwitch

PoolCommit(p0) ==
  /\ PoolFields(p0)
  /\ facadeCall' = NoFacadeCall
  /\ requests' = <<>>
  /\ UNCHANGED replaced
  /\ UNCHANGED <<httpsEndpoints, poolOptMaxRetries, poolUp, poolMalformed, handlers, mainVars, poolBuilt>>
  /\ UNCHANGED wsVars

\* initConnectionManager(config) has returned: the constructor has called
\* connect() and startHealthCheck().
PoolBuiltState ==
  /\ poolBuilt = TRUE
  /\ LET p == PoolConnect(EmptyPool) IN
     /\ poolIndex = p.idx
     /\ connection = p.connection
     /\ poolState = p.state
     /\ currentRetries = p.retries
     /\ poolFailed = p.failed
     /\ probes = p.probes
     /\ retryTimers = p.timers
  /\ healthCheckIntervalId = TRUE
  /\ usedRecently = TRUE
  /\ lastGet = "none"
  /\ poolEmitted = -1
  /\ poolSwitched = FALSE
  /\ endpointFails = 0
  /\ failsAtPoolSwitch = -1
  /\ replaced = <<>>
  /\ facadeCall = NoFacadeCall
  /\ handlers = NoHandlers
  /\ requests = <<>>

PoolInit ==
  /\ httpsEndpoints \in 1..MaxPoolEndpoints
  /\ poolOptMaxRetries \in PoolMaxRetriesOptions
  /\ poolUp \in SUBSET (0..(httpsEndpoints - 1))
  /\ poolMalformed = {}
  /\ PoolBuiltState

\* connectionManagerInstance is null: initConnectionManager has not run.
PoolAbsent ==
  /\ httpsEndpoints = 0
  /\ poolOptMaxRetries = 0
  /\ poolUp = {}
  /\ poolMalformed = {}
  /\ poolBuilt = FALSE
  /\ poolIndex = 0
  /\ connection = -1
  /\ poolState = P_CONNECTING
  /\ currentRetries = 0
  /\ poolFailed = {}
  /\ probes = NoProbes
  /\ retryTimers = 0
  /\ healthCheckIntervalId = FALSE
  /\ usedRecently = FALSE
  /\ lastGet = "none"
  /\ poolEmitted = -1
  /\ poolSwitched = FALSE
  /\ endpointFails = 0
  /\ failsAtPoolSwitch = -1
  /\ replaced = <<>>
  /\ facadeCall = NoFacadeCall
  /\ handlers = NoHandlers
  /\ requests = <<>>

\* a getVersion call of connect() settles
ConnectProbeDone(endpoint) ==
  /\ poolBuilt
  /\ probes[<<"connect", endpoint>>] > 0
  /\ PoolCommit(ConnectProbed([Pool EXCEPT !.probes[<<"connect", endpoint>>] = @ - 1],
                              endpoint, endpoint \in poolUp))
  /\ lastGet' = "none"
  /\ UNCHANGED <<healthCheckIntervalId, usedRecently>>

\* a getVersion call of the health check settles
HealthProbeDone(endpoint) ==
  /\ poolBuilt
  /\ probes[<<"health", endpoint>>] > 0
  /\ PoolCommit(HealthProbed([Pool EXCEPT !.probes[<<"health", endpoint>>] = @ - 1],
                             endpoint, endpoint \in poolUp))
  /\ lastGet' = "none"
  /\ UNCHANGED <<healthCheckIntervalId, usedRecently>>

\* the callback of setTimeout(..., retryDelay)
RetryTimerFire ==
  /\ poolBuilt
  /\ retryTimers > 0
  /\ PoolCommit(PoolConnect([Pool EXCEPT !.timers = @ - 1]))
  /\ lastGet' = "none"
  /\ UNCHANGED <<healthCheckIntervalId, usedRecently>>

\* the callback of setInterval(..., healthCheckInterval), pool used recently
HealthCheck ==
  /\ poolBuilt
  /\ healthCheckIntervalId
  /\ usedRecently
  /\ CountInFlight(probes) + retryTimers < MaxInFlight
  /\ PoolCommit(TestConnection(Pool, "health"))
  /\ lastGet' = "none"
  /\ UNCHANGED <<healthCheckIntervalId, usedRecently>>

\* more than twice the health check interval passes without a getConnection()
GoIdle ==
  /\ poolBuilt
  /\ usedRecently
  /\ usedRecently' = FALSE
  /\ lastGet' = "none"
  /\ poolEmitted' = -1
  /\ UNCHANGED <<httpsEndpoints, poolOptMaxRetries, poolUp, poolMalformed, handlers, mainVars, poolBuilt, poolIndex,
                 connection, poolState, currentRetries, poolFailed,
                 healthCheckIntervalId, probes, retryTimers,
                 endpointFails, failsAtPoolSwitch, replaced>>
  /\ facadeCall' = NoFacadeCall
  /\ requests' = <<>>
  /\ poolSwitched' = FALSE
  /\ UNCHANGED wsVars

\* getConnection()
GetConnection ==
  /\ poolBuilt
  /\ connection = -1 => CountInFlight(probes) + retryTimers < MaxInFlight
  /\ usedRecently' = TRUE
  /\ IF connection = -1
     THEN /\ PoolCommit(PoolConnect(Pool))
          /\ lastGet' = "throws"
     ELSE /\ PoolCommit(Pool)
          /\ lastGet' = "client"
  /\ UNCHANGED healthCheckIntervalId

PoolNext ==
  \/ \E endpoint \in 0..(httpsEndpoints - 1) : ConnectProbeDone(endpoint)
  \/ \E endpoint \in -1..(httpsEndpoints - 1) : HealthProbeDone(endpoint)
  \/ RetryTimerFire
  \/ HealthCheck
  \/ GoIdle
  \/ GetConnection

\* wsManagerFactoryInstance is null: initWebSocketManagerFactory has not run.
WsAbsent ==
  /\ wssEndpoints = 0
  /\ optMaxRetries = 0
  /\ optInitialBackoff = 0
  /\ up = {}
  /\ malformed = {}
  /\ sessions = <<>>
  /\ wsManager = 0
  /\ currentEndpointIndex = 0
  /\ failedEndpoints = {}
  /\ isReconnecting = FALSE
  /\ primaryFailCount = 0
  /\ callerOn = FALSE
  /\ socks = <<>>
  /\ crashed = FALSE
  /\ log = <<>>
  /\ lastCall = NoCall
  /\ emits = <<>>
  /\ switches = 0
  /\ reconnSeen = 0
  /\ attemptFails = 0
  /\ failsAtSwitch = -1
  /\ seenAtSwitch = -1

\* The subscription channel on its own.
Init == WsInit /\ PoolAbsent /\ MainLoaded

Next ==
  \/ \E k \in 1..Len(socks) : SockOpen(k)
  \/ \E k \in 1..Len(socks) : SockMessage(k)
  \/ \E k \in 1..Len(socks) : SockError(k)
  \/ \E k \in 1..Len(socks) : SockClose(k)
  \/ \E sid \in 1..Len(sessions) : TimerFire(sid)
  \/ FactoryDisconnect

Spec == Init /\ [][Next]_vars

\* The subscription channel built from any endpoint list and options.
ConfigSpecInit == ApiInit /\ PoolAbsent /\ MainLoaded
ConfigSpec == ConfigSpecInit /\ [][Next]_vars

\* The subscription channel with a caller that calls send() and disconnect()
\* whenever it likes.
ApiNext ==
  \/ \E k \in 1..Len(socks) : SockOpen(k)
  \/ \E k \in 1..Len(socks) : SockMessage(k)
  \/ \E k \in 1..Len(socks) : SockError(k)
  \/ \E k \in 1..Len(socks) : SockClose(k)
  \/ \E sid \in 1..Len(sessions) : TimerFire(sid)
  \/ CallerSend
  \/ CallerDisconnect
ApiSpecInit == Init /\ wssEndpoints <= MaxApiEndpoints
ApiSpec == ApiSpecInit /\ [][ApiNext]_vars

\* The subscription channel with a caller that calls connect() whenever it
\* likes.
ConnectNext ==
  \/ \E k \in 1..Len(socks) : SockOpen(k)
  \/ \E k \in 1..Len(socks) : SockMessage(k)
  \/ \E k \in 1..Len(socks) : SockError(k)
  \/ \E k \in 1..Len(socks) : SockClose(k)
  \/ \E sid \in 1..Len(sessions) : TimerFire(sid)
  \/ CallerConnect
ConnectSpec == ApiSpecInit /\ [][ConnectNext]_vars

\* ------------------------------------------------ the module-level singletons
\* wsManagerFactoryInstance is set (the constructor throws on an empty list)
FactoryBuilt == wssEndpoints > 0

\* The three observations of the pool's last step, for a step of the pool
\* that emits nothing.
PoolQuiet ==
  /\ lastGet' = "none"
  /\ requests' = <<>>
  /\ poolEmitted' = -1
  /\ poolSwitched' = FALSE

\* A step that leaves the current ConnectionManager as it is.
PoolKept ==
  UNCHANGED <<httpsEndpoints, poolOptMaxRetries, poolUp, poolMalformed, handlers, mainVars, poolBuilt, poolIndex,
              connection, poolState, currentRetries, poolFailed,
              healthCheckIntervalId, usedRecently, probes, retryTimers,
              endpointFails, failsAtPoolSwitch>>

FacadeCall(fn, n, ret) == [fn |-> fn, n |-> n, ret |-> ret]

\* getConnectionManager()
GetConnectionManager ==
  /\ facadeCall' = FacadeCall("getConnectionManager", 0,
                              IF poolBuilt THEN "instance" ELSE "throws")
  /\ PoolQuiet
  /\ PoolKept
  /\ UNCHANGED replaced
  /\ UNCHANGED wsVars

\* A getConnection() of the module that builds a ConnectionManager on one
\* default endpoint when none was initialised.
GetConnectionLazy ==
  /\ IF ~poolBuilt
     THEN /\ httpsEndpoints' = 1
          /\ poolOptMaxRetries' = 0
          /\ poolUp' = {}
          /\ UNCHANGED <<poolMalformed, handlers, mainVars>>
          /\ poolBuilt' = TRUE
          /\ PoolFields(PoolConnect(EmptyPool))
          /\ healthCheckIntervalId' = TRUE
          /\ usedRecently' = TRUE
          /\ lastGet' = "client"
          /\ requests' = <<>>
          /\ facadeCall' = FacadeCall("getConnection", 0, "client")
     ELSE /\ usedRecently' = TRUE
          /\ PoolFields(Pool)
          /\ lastGet' = "client"
          /\ requests' = <<>>
          /\ facadeCall' = FacadeCall("getConnection", 0, "client")
          /\ UNCHANGED <<httpsEndpoints, poolOptMaxRetries, poolUp, poolMalformed, handlers, mainVars, poolBuilt,
                         healthCheckIntervalId>>
  /\ UNCHANGED replaced
  /\ UNCHANGED wsVars

\* getConnection() of the module: getConnectionManager().getConnection()
GetConnectionOfModule ==
  /\ IF ~poolBuilt
     THEN /\ facadeCall' = FacadeCall("getConnection", 0, "throws")
          /\ PoolQuiet
          /\ PoolKept
     ELSE /\ usedRecently' = TRUE
          /\ IF connection = -1
             THEN /\ PoolFields(PoolConnect(Pool))
                  /\ lastGet' = "throws"
             ELSE /\ PoolFields(Pool)
                  /\ lastGet' = "client"
          /\ facadeCall' = FacadeCall("getConnection", 0, lastGet')
          /\ requests' = <<>>
          /\ UNCHANGED <<httpsEndpoints, poolOptMaxRetries, poolUp, poolMalformed, handlers, mainVars, poolBuilt,
                         healthCheckIntervalId>>
  /\ UNCHANGED replaced
  /\ UNCHANGED wsVars

\* stop(): the interval is cleared and the listeners are removed; what is
\* left of the instance is its getVersion calls in flight and its pending
\* setTimeout callbacks.
Stopped(p) == [p EXCEPT !.emitted = -1, !.switched = FALSE]

\* An initConnectionManager(config) whose constructor looks at the length
\* of the list after connect() and startHealthCheck().
InitConnectionManagerLate(n, maxRetries, answering) ==
  /\ poolBuilt => /\ n \in {0, httpsEndpoints}
                  /\ maxRetries = poolOptMaxRetries
                  /\ answering = poolUp
  /\ (poolBuilt /\ n > 0) => Len(replaced) < MaxReplaced
  /\ PoolFields(PoolConnect(EmptyPool))
  /\ healthCheckIntervalId' = TRUE
  /\ usedRecently' = TRUE
  /\ lastGet' = "none"
  /\ requests' = <<>>
  /\ IF n = 0
     THEN /\ facadeCall' = FacadeCall("initConnectionManager", 0, "throws")
          /\ UNCHANGED <<httpsEndpoints, poolOptMaxRetries, poolUp, poolMalformed, handlers, mainVars, poolBuilt, replaced>>
     ELSE /\ replaced' = IF poolBuilt THEN Append(replaced, Stopped(Pool)) ELSE replaced
          /\ httpsEndpoints' = n
          /\ poolOptMaxRetries' = maxRetries
          /\ poolUp' = answering
          /\ UNCHANGED <<poolMalformed, handlers, mainVars>>
          /\ poolBuilt' = TRUE
          /\ facadeCall' = FacadeCall("initConnectionManager", n, "instance")
  /\ UNCHANGED wsVars

\* initConnectionManager(config) with n endpoints.  A second call hands in
\* the configuration of the first or an empty list.
InitConnectionManager(n, maxRetries, answering) ==
  /\ poolBuilt => /\ n \in {0, httpsEndpoints}
                  /\ maxRetries = poolOptMaxRetries
                  /\ answering = poolUp
  /\ (poolBuilt /\ n > 0) => Len(replaced) < MaxReplaced
  /\ IF n = 0
     THEN \* the constructor throws: connectionManagerInstance is not assigned
          /\ healthCheckIntervalId' = FALSE
          /\ facadeCall' = FacadeCall("initConnectionManager", 0, "throws")
          /\ PoolQuiet
          /\ UNCHANGED <<httpsEndpoints, poolOptMaxRetries, poolUp, poolMalformed, handlers, mainVars, poolBuilt,
                         poolIndex, connection, poolState, currentRetries,
                         poolFailed, usedRecently, probes, retryTimers,
                         endpointFails, failsAtPoolSwitch, replaced>>
     ELSE /\ replaced' = IF poolBuilt THEN Append(replaced, Stopped(Pool)) ELSE replaced
          /\ httpsEndpoints' = n
          /\ poolOptMaxRetries' = maxRetries
          /\ poolUp' = answering
          /\ UNCHANGED <<poolMalformed, handlers, mainVars>>
          /\ poolBuilt' = TRUE
          /\ PoolFields(PoolConnect(EmptyPool))
          /\ healthCheckIntervalId' = TRUE
          /\ usedRecently' = TRUE
          /\ lastGet' = "none"
          /\ requests' = <<>>
          /\ facadeCall' = FacadeCall("initConnectionManager", n, "instance")
  /\ UNCHANGED wsVars

\* A step of a replaced ConnectionManager.
ReplacedStep(i, p) ==
  /\ replaced' = [replaced EXCEPT ![i] = p]
  /\ facadeCall' = NoFacadeCall
  /\ PoolQuiet
  /\ PoolKept
  /\ UNCHANGED wsVars

\* a getVersion call of connect() settles in a replaced ConnectionManager
ReplacedConnectProbeDone(i, endpoint) ==
  /\ replaced[i].probes[<<"connect", endpoint>>] > 0
  /\ ReplacedStep(i, ConnectProbed(
       [Stopped(replaced[i]) EXCEPT !.probes[<<"connect", endpoint>>] = @ - 1],
       endpoint, endpoint \in poolUp))

\* the callback of setTimeout(..., retryDelay) of a replaced ConnectionManager
ReplacedRetryTimerFire(i) ==
  /\ replaced[i].timers > 0
  /\ ReplacedStep(i, PoolConnect([Stopped(replaced[i]) EXCEPT !.timers = @ - 1]))

\* getWebSocketManagerFactory()
GetWebSocketManagerFactory ==
  /\ facadeCall' = FacadeCall("getWebSocketManagerFactory", 0,
                              IF FactoryBuilt THEN "instance" ELSE "throws")
  /\ UNCHANGED wsVars
  /\ PoolKept
  /\ UNCHANGED <<lastGet, poolEmitted, poolSwitched, replaced, requests>>

\* The fields of a WebSocketManagerFactory before its constructor body runs;
\* the sessions and transports of the instance before it stay where they are.
FreshFactory(w) ==
  [w EXCEPT !.wsManager = 0, !.idx = 0, !.failed = {}, !.isRec = FALSE, !.pfc = 0]

\* An initWebSocketManagerFactory(wssEndpoints) that looks at the length of
\* the list before it disconnects the instance it holds.
InitWebSocketManagerFactoryChecksFirst(n) ==
  /\ ~crashed
  /\ FactoryBuilt => n \in {0, wssEndpoints}
  /\ (FactoryBuilt /\ n > 0) => Len(sessions) <= MaxReplaced
  /\ IF n = 0
     THEN /\ WsFields(World, NoCall)
          /\ facadeCall' = FacadeCall("initWebSocketManagerFactory", 0, "throws")
          /\ UNCHANGED wssEndpoints
     ELSE /\ WsFields([CreateWebSocketManager(FreshFactory(
                         IF FactoryBuilt THEN DisconnectFactory(World) ELSE World))
                       EXCEPT !.callerOn = TRUE], NoCall)
          /\ facadeCall' = FacadeCall("initWebSocketManagerFactory", n, "instance")
          /\ wssEndpoints' = n
  /\ UNCHANGED <<optMaxRetries, optInitialBackoff, up, malformed>>
  /\ PoolKept
  /\ UNCHANGED <<lastGet, poolEmitted, poolSwitched, replaced, requests>>

\* initWebSocketManagerFactory(wssEndpoints) with n endpoints and the default
\* options, followed by the caller attaching its listeners.  A second call
\* hands in the list of the first or an empty list.
InitWebSocketManagerFactory(n) ==
  /\ ~crashed
  /\ FactoryBuilt => n \in {0, wssEndpoints}
  /\ (FactoryBuilt /\ n > 0) => Len(sessions) <= MaxReplaced
  /\ LET w0 == IF FactoryBuilt THEN DisconnectFactory(World) ELSE World
     IN IF n = 0
        THEN \* the constructor throws: wsManagerFactoryInstance is not assigned
             /\ WsFields(w0, NoCall)
             /\ facadeCall' = FacadeCall("initWebSocketManagerFactory", 0, "throws")
             /\ UNCHANGED wssEndpoints
        ELSE /\ WsFields([CreateWebSocketManager(FreshFactory(w0)) EXCEPT !.callerOn = TRUE],
                         NoCall)
             /\ facadeCall' = FacadeCall("initWebSocketManagerFactory", n, "instance")
             /\ wssEndpoints' = n
  /\ UNCHANGED <<optMaxRetries, optInitialBackoff, up, malformed>>
  /\ PoolKept
  /\ UNCHANGED <<lastGet, poolEmitted, poolSwitched, replaced, requests>>

\* The two singletons from the start of the process: nothing is initialised,
\* and init and get are called in any order.  The transports of the
\* subscription channel deliver no event here and the health check
\* interval of the request channel does not fire (PoolSpec has it).
FacadeInit == WsAbsent /\ PoolAbsent /\ MainLoaded

FacadeNext ==
  \/ GetConnectionManager
  \/ GetConnectionOfModule
  \/ GetWebSocketManagerFactory
  \/ \E n \in 0..MaxInitEndpoints, maxRetries \in PoolMaxRetriesOptions,
        answering \in SUBSET (0..(MaxInitEndpoints - 1)) :
        /\ answering \subseteq 0..(n - 1)
        /\ InitConnectionManager(n, maxRetries, answering)
  \/ \E n \in 0..MaxInitEndpoints : InitWebSocketManagerFactory(n)
  \/ \E endpoint \in 0..(httpsEndpoints - 1) : ConnectProbeDone(endpoint)
  \/ RetryTimerFire
  \/ \E i \in 1..Len(replaced), endpoint \in 0..(httpsEndpoints - 1) :
        ReplacedConnectProbeDone(i, endpoint)
  \/ \E i \in 1..Len(replaced) : ReplacedRetryTimerFire(i)
FacadeSpec == FacadeInit /\ [][FacadeNext]_vars

\* -------------------------------------------------------- request handlers
\* getConnection() of the pool, as a step inside a handler: with no
\* Connection it calls connect() and throws.
PoolGetConnection(p) == IF p.connection = -1 THEN PoolConnect(p) ELSE p

\* A step of a request handler: what it did to the pool, the Connection its
\* singleton holds afterwards, and the endpoints its requests went to.
HandlerStep(p, used, h, sent) ==
  /\ PoolFields(p)
  /\ usedRecently' = (used \/ usedRecently)
  /\ handlers' = h
  /\ requests' = sent
  /\ lastGet' = "none"
  /\ facadeCall' = NoFacadeCall
  /\ UNCHANGED <<httpsEndpoints, poolOptMaxRetries, poolUp, poolMalformed, poolBuilt,
                 healthCheckIntervalId, replaced, mainVars>>
  /\ UNCHANGED wsVars

\* getTokenAuthorities(mintAddress) of the module: the TokenCheckManager is
\* built on the first call, its constructor takes getConnection() once, and
\* getMint goes to this.connection.  A constructor that throws leaves the
\* singleton null and no request is made.
GetTokenAuthorities ==
  /\ poolBuilt
  /\ LET fresh == handlers.tokenCheck = -1
         held == IF fresh THEN connection ELSE handlers.tokenCheck
     IN HandlerStep(IF fresh THEN PoolGetConnection(Pool) ELSE Pool, fresh,
                    [handlers EXCEPT !.tokenCheck = held],
                    IF held = -1 THEN <<>> ELSE <<held>>)

\* getMintFromSignature(signature) of the module up to its first await: the
\* SignatureHandler is built on the first call and getParsedTransaction goes
\* to this.connection.  meta: the answer carries tx.meta; without it the call
\* waits 200 ms for its second request.
GetMintFromSignature(meta) ==
  /\ poolBuilt
  /\ meta \/ handlers.awaiting < MaxAwaiting
  /\ LET fresh == handlers.signature = -1
         held == IF fresh THEN connection ELSE handlers.signature
     IN HandlerStep(IF fresh THEN PoolGetConnection(Pool) ELSE Pool, fresh,
                    [handlers EXCEPT !.signature = held,
                                     !.awaiting = IF held = -1 \/ meta THEN @ ELSE @ + 1],
                    IF held = -1 THEN <<>> ELSE <<held>>)

\* getMintFromSignature after the 200 ms: this.connection = getConnection()
\* inside a try whose catch ignores the exception, then the second
\* getParsedTransaction.
SignatureRetry ==
  /\ poolBuilt
  /\ handlers.awaiting > 0
  /\ LET held == IF connection = -1 THEN handlers.signature ELSE connection
     IN HandlerStep(PoolGetConnection(Pool), TRUE,
                    [handlers EXCEPT !.signature = held, !.awaiting = @ - 1],
                    <<held>>)

\* The request channel with its two request handlers.
RequestNext ==
  \/ \E endpoint \in 0..(httpsEndpoints - 1) : ConnectProbeDone(endpoint)
  \/ \E endpoint \in -1..(httpsEndpoints - 1) : HealthProbeDone(endpoint)
  \/ RetryTimerFire
  \/ HealthCheck
  \/ GetTokenAuthorities
  \/ \E meta \in BOOLEAN : GetMintFromSignature(meta)
  \/ SignatureRetry
RequestInit == PoolInit /\ WsAbsent /\ MainLoaded
RequestSpec == RequestInit /\ [][RequestNext]_vars

\* ------------------------------------------------- main's message handler
MessageKinds == {"other", "create"}

\* A step of main's message handler or of a processTransaction call.
MainStep(active, pending, message, settled) ==
  /\ activeTransactions' = active
  /\ processing' = pending
  /\ lastMessage' = message
  /\ lastSettled' = settled
  /\ UNCHANGED MAX_CONCURRENT
  /\ UNCHANGED wsVars
  /\ UNCHANGED poolVars

\* A finally block that runs only when processTransaction resolved.
ProcessTransactionDoneNoFinally(outcome) ==
  /\ processing > 0
  /\ MainStep(IF outcome = "resolved" THEN activeTransactions - 1
                                      ELSE activeTransactions,
              processing - 1, "none", outcome)
  /\ UNCHANGED handled

\* wsManagerFactory.on("message"), up to its await: a message that is not a
\* pool creation with a signature returns early; at the limit the message is
\* skipped; otherwise the counter is incremented and processTransaction is
\* called.
OnMessage(kind) ==
  /\ handled < MaxMessages
  /\ handled' = handled + 1
  /\ IF kind # "create"
     THEN MainStep(activeTransactions, processing, "ignored", "none")
     ELSE IF activeTransactions >= MAX_CONCURRENT
     THEN MainStep(activeTransactions, processing, "dropped", "none")
     ELSE MainStep(activeTransactions + 1, processing + 1, "processed", "none")

\* the awaited processTransaction(signature) settles: the catch block logs a
\* rejection, the finally block decrements the counter
ProcessTransactionDone(outcome) ==
  /\ processing > 0
  /\ MainStep(activeTransactions - 1, processing - 1, "none", outcome)
  /\ UNCHANGED handled

MessageNext ==
  \/ \E kind \in MessageKinds : OnMessage(kind)
  \/ \E outcome \in {"resolved", "rejected"} : ProcessTransactionDone(outcome)

\* The message handler on its own, with any limit.
MessageInit ==
  /\ WsAbsent /\ PoolAbsent
  /\ MAX_CONCURRENT \in 0..MaxConcurrent
  /\ MainIdle
MessageSpec == MessageInit /\ [][MessageNext]_vars

\* The request channel with any endpoint list, URLs that new Connection
\* rejects included.
PoolConfigInit ==
  /\ httpsEndpoints \in 1..MaxPoolEndpoints
  /\ poolOptMaxRetries \in PoolMaxRetriesOptions
  /\ poolUp \in SUBSET (0..(httpsEndpoints - 1))
  /\ poolMalformed \in SUBSET ((0..(httpsEndpoints - 1)) \ poolUp)
  /\ PoolBuiltState
  /\ WsAbsent
  /\ MainLoaded
PoolConfigSpec == PoolConfigInit /\ [][PoolNext]_vars

\* The request channel on its own.
PoolSpecInit == PoolInit /\ WsAbsent /\ MainLoaded
PoolSpec == PoolSpecInit /\ [][PoolNext]_vars

\* Every getVersion call settles and every setTimeout callback runs.
PoolFairSpec ==
  /\ PoolSpecInit /\ [][PoolNext]_vars
  /\ \A endpoint \in 0..(MaxPoolEndpoints - 1) :
        WF_vars(ConnectProbeDone(endpoint)) /\ WF_vars(HealthProbeDone(endpoint))
  /\ WF_vars(RetryTimerFire)

\* The rotation logic of both components on its own: switchEndpoint() run
\* again and again from the constructed state, on tables of every length
\* and with no endpoint answering, as the failure handlers run it.  (The
\* factory's own handlers call it at index 0 only; the pool's at any index.)
RotationInit ==
  /\ wssEndpoints \in 1..MaxTable
  /\ optMaxRetries \in {0}
  /\ optInitialBackoff \in InitialBackoffOptions
  /\ up = {}
  /\ malformed = {}
  /\ WsBuilt
  /\ httpsEndpoints \in 1..MaxTable
  /\ poolOptMaxRetries \in PoolMaxRetriesOptions
  /\ poolUp = {}
  /\ poolMalformed = {}
  /\ PoolBuiltState
  /\ MainLoaded

\* switchEndpoint() of the factory
WsAdvance ==
  /\ ~crashed
  /\ switches < MaxAdvances
  /\ Commit(SwitchEndpoint(World))

\* switchEndpoint() of the pool
PoolAdvance ==
  /\ poolBuilt
  /\ CountInFlight(probes) <= MaxAdvances
  /\ PoolCommit(PoolSwitchEndpoint(Pool))
  /\ lastGet' = "none"
  /\ UNCHANGED <<healthCheckIntervalId, usedRecently>>

RotationNext == WsAdvance \/ PoolAdvance
RotationSpec == RotationInit /\ [][RotationNext]_vars

\* ------------------------------------------------------------------ claims
CurrentSession == sessions[wsManager]
ManagerConnected == wsManager # 0 /\ CurrentSession.state = CONNECTED
Sessions == 1..Len(sessions)
Socks == 1..Len(socks)
Exhausted(l, sid) == \E i \in 1..Len(l) : l[i].ev = "max_retries_reached" /\ l[i].sid = sid

\* C1: while some streaming endpoint accepts connections and the caller has
\* not torn the manager down, the manager never comes to rest unconnected:
\* its session is Connected, or has a connection attempt under way, or has a
\* reconnect scheduled.  (Eventually Connected implies it: from a state at
\* rest nothing further happens.)
C1_NeverAtRest ==
  (up # {} /\ callerOn /\ ~crashed) =>
     (ManagerConnected \/ CurrentSession.ws # 0 \/ CurrentSession.timer)

\* C2: whenever the current session gives up on its endpoint (emits
\* max_retries_reached), the manager marks the endpoint failed, advances and
\* builds a new session, in the same step.
C2_ExhaustionRotates ==
  [][Exhausted(log', wsManager) =>
       /\ switches' = switches + 1
       /\ wsManager' # wsManager
       /\ (currentEndpointIndex \in failedEndpoints' \/ failedEndpoints' = {})]_vars

\* C3: a session the manager has replaced holds no transport handle and no
\* pending reconnect timer and owns no live transport, so at most one
\* connection attempt or connection exists at a time.
C3_ReplacedSessionIsDead ==
  /\ \A sid \in Sessions : sid # wsManager =>
        /\ sessions[sid].ws = 0
        /\ ~sessions[sid].timer
        /\ \A k \in Socks : socks[k].owner = sid => socks[k].rs = "closed"
  /\ Cardinality({k \in Socks : socks[k].rs # "closed"}) <= 1

\* C4: a session on which disconnect() has returned (a replaced session, or
\* the current one after the caller's disconnect) is Disconnected, has no
\* pending reconnect timer and no transport: connect() is not called on it
\* again, so it stays that way.
DisconnectReturned(sid) == ~sessions[sid].listened \/ (sid = wsManager /\ ~callerOn)
C4_DisconnectSticks ==
  \A sid \in Sessions : DisconnectReturned(sid) =>
    /\ sessions[sid].state = DISCONNECTED
    /\ ~sessions[sid].timer
    /\ sessions[sid].ws = 0

\* C5: bound to index 0, the manager advances at the third consecutive
\* Reconnecting transition it observes, not earlier (an advance is entered
\* with exactly 3 seen) and not later (3 are never seen without an advance).
C5_PrimaryThreshold ==
  /\ seenAtSwitch \in {-1, maxPrimaryFailCount}
  /\ reconnSeen < maxPrimaryFailCount

\* C6: with endpoints [p1, p2], the one switch happens on the third
\* consecutive failed connection attempt to p1, goes to p2 and stays there.
C6_FailoverOnThirdFailure ==
  wssEndpoints = 2 =>
    /\ switches = 0 => (currentEndpointIndex = 0 /\ attemptFails < maxPrimaryFailCount)
    /\ switches > 0 => /\ switches = 1
                       /\ failsAtSwitch = maxPrimaryFailCount
                       /\ currentEndpointIndex = 1

\* C7: in a step in which the manager's current session becomes Connected
\* while the caller is subscribed, the caller's subscribe messages are on the
\* session's transport exactly once each, in order, and every send returned
\* true.
BecomesConnected ==
  /\ callerOn' /\ ~crashed'
  /\ sessions'[wsManager'].state = CONNECTED
  /\ (wsManager' # wsManager \/ sessions[wsManager].state # CONNECTED)
SendResults(l) == [i \in 1..Len(l) |-> l[i].arg]
C7_ReplayOnOpen ==
  [][BecomesConnected =>
       /\ sessions'[wsManager'].ws # 0
       /\ socks'[sessions'[wsManager'].ws].sent = Intent
       /\ SendResults(log') = [i \in 1..Len(Intent) |-> "true"]]_vars
\* the replay has run on a session rebuilt after an endpoint switch
C7_Witness ==
  /\ switches > 0 /\ callerOn /\ ManagerConnected
  /\ socks[CurrentSession.ws].sent = Intent
  /\ socks[CurrentSession.ws].ep = 1

\* C8: the pool marks an endpoint failed and advances only after probes of
\* that same endpoint have failed maxRetries + 1 times in a row (failures
\* obtained against another endpoint do not count), and the retry counter is
\* 0 right after the advance.
C8_AdvanceAfterRetries ==
  poolSwitched => (failsAtPoolSwitch >= PoolMaxRetries + 1 /\ currentRetries = 0)

\* C9: the pool is never left unconnected with no probe in flight and no
\* retry pending, and when some request endpoint answers probes it is
\* eventually Connected on an endpoint that answers probes (every probe
\* settles, every retry timer fires).
PoolScheduled == CountInFlight(probes) + retryTimers > 0
PoolConnectedOnLive == poolState = P_CONNECTED /\ poolIndex \in poolUp
C9_PoolLiveness ==
  /\ [](poolState # P_CONNECTED => PoolScheduled)
  /\ (poolUp # {} => <>PoolConnectedOnLive)

\* C10: getConnection() hands out a client only in state Connected.
C10_ClientOnlyWhenConnected ==
  lastGet = "client" => poolState = P_CONNECTED

\* C11: a send() called while the manager has no session or its session is
\* not Connected returns false, emits no event, throws nothing and leaves
\* every session (state, retry counter, timer) and every transport as it was.
C11_SendUnconnected ==
  [][(lastCall'.op = "send" /\ (wsManager = 0 \/ CurrentSession.state # CONNECTED)) =>
       /\ lastCall'.ret = "false"
       /\ ~lastCall'.emitted
       /\ ~crashed'
       /\ sessions' = sessions
       /\ socks' = socks]_vars
\* send() has returned on a session that is Reconnecting with its timer pending
C11_Witness ==
  /\ lastCall.op = "send" /\ lastCall.ret = "false"
  /\ CurrentSession.state = RECONNECTING /\ CurrentSession.timer

\* C20: right after a disconnect() of the manager, whatever the state it was
\* called in, nothing was thrown and the session has no reconnect timer; a
\* second disconnect() called at once throws nothing, emits no state_change
\* and changes no field of the manager, its sessions or their transports.
C20_IdempotentTeardown ==
  lastCall.op = "disconnect" =>
    /\ ~crashed
    /\ wsManager # 0 => ~CurrentSession.timer
    /\ DisconnectFactory(World) = World
    /\ wsManager # 0 => Disconnect(World, wsManager) = World
\* disconnect() has returned and has moved the session to Disconnected
C20_Witness ==
  /\ lastCall.op = "disconnect" /\ lastCall.emitted
  /\ CurrentSession.state = DISCONNECTED

\* C12: with a finite configured maximum N (optMaxRetries, 0 included) a
\* session has scheduled at most N reconnect attempts since its last open
\* (retryCount counts them and the open handler resets it).
C12_BoundedRetries ==
  \A sid \in DOMAIN sessions : sessions[sid].retryCount <= optMaxRetries

\* C13: while the process runs and the caller has not disconnected, the
\* manager's session, unless it is Disconnected (retries exhausted), has a
\* transport handle or a pending reconnect timer.
C13_RetriedLocally ==
  (~crashed /\ callerOn /\ wsManager # 0 /\ CurrentSession.state # DISCONNECTED) =>
    (CurrentSession.ws # 0 \/ CurrentSession.timer)

\* The transports a session has created, and the latest of them.
SocksOf(sid) == {k \in Socks : socks[k].owner = sid}
LastSockOf(sid) == CHOOSE k \in SocksOf(sid) : \A j \in SocksOf(sid) : j <= k

\* C14: fail, open, fail.  A session whose reconnect timer is pending for
\* the first failure after an open (its latest transport had opened) and
\* that had failed before (an earlier transport of its own) has the
\* configured initialBackoff as the base delay of that reconnect.
C14_BackoffResetToInitial ==
  \A sid \in Sessions :
    (/\ sessions[sid].timer /\ sessions[sid].state = RECONNECTING
     /\ sessions[sid].retryCount = 1
     /\ Cardinality(SocksOf(sid)) >= 2
     /\ socks[LastSockOf(sid)].opened /\ socks[LastSockOf(sid)].rs = "closed")
    => sessions[sid].backoffTime = SessionInitialBackoff

\* C15: a session whose transport has opened and has not closed yet has
\* attempt counter 0, whatever errors were processed meanwhile, and the
\* reconnect scheduled by the step that ends this (the close of that
\* transport) is attempt number 1.
C15_CounterResetOnOpen ==
  [][\A sid \in Sessions :
       (sessions[sid].ws # 0 /\ socks[sessions[sid].ws].rs = "open") =>
         /\ sessions[sid].retryCount = 0
         /\ sessions'[sid].timer => sessions'[sid].retryCount = 1]_vars
\* a reconnect (not the first transport of its session) has opened
C15_Witness ==
  \E sid \in Sessions :
    /\ sessions[sid].ws # 0 /\ socks[sessions[sid].ws].rs = "open"
    /\ Cardinality(SocksOf(sid)) >= 2
    /\ sessions[sid].retryCount = 0

\* C16: for every jitter in [0.85, 1.15] the delay of a scheduled reconnect
\* is non-negative and at most ceiling * 1.15, and the delay of attempt
\* number 1 (attempt count 0 when it was scheduled) is at least
\* initial * 0.85.  Delays are in hundredths of a millisecond.
C16_BackoffBound ==
  \A sid \in Sessions : \A j \in JitterPercents :
    sessions[sid].timer =>
      LET d == Delay100(sessions[sid].backoffTime, j) IN
      /\ d >= 0
      /\ d <= SessionMaxBackoff * 115
      /\ sessions[sid].retryCount = 1 => d >= SessionInitialBackoff * 85

\* The step is a run of switchEndpoint() of the factory / of the pool.
WsSwitched == switches' = switches + 1
PoolSwitched == poolSwitched' /\ probes' # probes

\* C17: on a table [A, B, C] (indices 0, 1, 2) started at A, the advance
\* that marks A failed selects B, the advance that then marks B failed
\* selects C with A and B in the failed set, and the advance after that
\* (C marked, every index failed) clears the failed set and selects A; for
\* the factory and for the pool.
C17_RotationOrder ==
  [][/\ (wssEndpoints = 3 /\ WsSwitched) =>
          /\ (currentEndpointIndex = 0 /\ failedEndpoints = {}) =>
                (currentEndpointIndex' = 1 /\ failedEndpoints' = {0})
          /\ (currentEndpointIndex = 1 /\ failedEndpoints = {0}) =>
                (currentEndpointIndex' = 2 /\ failedEndpoints' = {0, 1})
          /\ (currentEndpointIndex = 2 /\ failedEndpoints = {0, 1}) =>
                (currentEndpointIndex' = 0 /\ failedEndpoints' = {})
     /\ (httpsEndpoints = 3 /\ PoolSwitched) =>
          /\ (poolIndex = 0 /\ poolFailed = {}) =>
                (poolIndex' = 1 /\ poolFailed' = {0})
          /\ (poolIndex = 1 /\ poolFailed = {0}) =>
                (poolIndex' = 2 /\ poolFailed' = {0, 1})
          /\ (poolIndex = 2 /\ poolFailed = {0, 1}) =>
                (poolIndex' = 0 /\ poolFailed' = {})]_vars
\* both components have advanced three times on a table of three
C17_Witness ==
  /\ wssEndpoints = 3 /\ switches = 3
  /\ currentEndpointIndex = 0 /\ failedEndpoints = {}
  /\ httpsEndpoints = 3 /\ CountInFlight(probes) = 4
  /\ poolIndex = 0 /\ poolFailed = {}

\* C18: after construction and after any number of switchEndpoint() runs,
\* on a table of any length, the current index of the factory and of the
\* pool is an index of the table and is not in the failed set.
C18_RotationInvariant ==
  /\ wsManager # 0 =>
       /\ currentEndpointIndex \in 0..(wssEndpoints - 1)
       /\ currentEndpointIndex \notin failedEndpoints
  /\ poolBuilt =>
       /\ poolIndex \in 0..(httpsEndpoints - 1)
       /\ poolIndex \notin poolFailed
\* both components stand on the last endpoint with the other two failed
C18_Witness ==
  /\ wssEndpoints = 3 /\ currentEndpointIndex = 2 /\ failedEndpoints = {0, 1}
  /\ httpsEndpoints = 3 /\ poolIndex = 2 /\ poolFailed = {0, 1}

\* C19: with one endpoint a run of switchEndpoint() ends with the current
\* index 0 and the failed set empty and has started a new connection
\* attempt to endpoint 0: a new Connecting session with its transport for
\* the factory, one more connect probe of endpoint 0 for the pool.
C19_SingleEndpoint ==
  [][/\ (wssEndpoints = 1 /\ WsSwitched) =>
          /\ currentEndpointIndex' = 0 /\ failedEndpoints' = {}
          /\ wsManager' = Len(sessions) + 1
          /\ sessions'[wsManager'].url = 0
          /\ sessions'[wsManager'].state = CONNECTING
          /\ sessions'[wsManager'].ws = Len(socks) + 1
          /\ socks'[Len(socks) + 1].ep = 0
          /\ socks'[Len(socks) + 1].rs = "connecting"
          /\ socks'[Len(socks) + 1].listening
     /\ (httpsEndpoints = 1 /\ PoolSwitched) =>
          /\ poolIndex' = 0 /\ poolFailed' = {}
          /\ poolState' = P_CONNECTING /\ connection' = 0
          /\ probes'[<<"connect", 0>>] = probes[<<"connect", 0>>] + 1]_vars
\* both components have advanced twice on their only endpoint
C19_Witness ==
  /\ wssEndpoints = 1 /\ switches = 2
  /\ httpsEndpoints = 1 /\ CountInFlight(probes) = 3 /\ poolSwitched

\* C22: a transport error processed while its session is Connected leaves
\* the session Connected.
C22_ErrorKeepsConnected ==
  [][\A sid \in Sessions :
       LET k == sessions[sid].ws IN
       (/\ sessions[sid].state = CONNECTED /\ k # 0
        /\ socks[k].rs = "open" /\ socks'[k].rs = "open"
        /\ socks'[k].errs = socks[k].errs + 1)
       => sessions'[sid].state = CONNECTED]_vars

\* C25: when the transport of the manager's current session opens, the
\* primary-failure counter is 0 once the open has been handled, whatever it
\* was before and whatever the current endpoint index.
C25_OpenResetsPrimaryCount ==
  [][\A k \in Socks :
       (/\ socks[k].owner = wsManager /\ sessions[wsManager].listened
        /\ socks[k].rs = "connecting" /\ socks'[k].rs = "open")
       => primaryFailCount' = 0]_vars
\* a reconnect to the primary endpoint (its failure was counted) has opened,
\* and the counter is 0
C25_Witness ==
  /\ ManagerConnected /\ currentEndpointIndex = 0
  /\ Cardinality(SocksOf(wsManager)) >= 2
  /\ socks[CurrentSession.ws].rs = "open" /\ socks[CurrentSession.ws].errs = 0
  /\ primaryFailCount = 0

\* C30: no 'error' event is emitted by a session or by the manager while
\* nobody listens to it: the program never ends on an uncaught 'error'.
C30_NoUnheardError == ~crashed

\* The events of the last handler emitted by the session the manager held
\* at the emission, and those emitted by the manager: name and payload.
Payloads(es) == [i \in 1..Len(es) |-> <<es[i].ev, es[i].arg>>]
FromCurrentSession == SelectSeq(emits, LAMBDA e : e.src = "session" /\ e.cur)
FromManager == SelectSeq(emits, LAMBDA e : e.src = "factory")

\* C24: in every handler the message, error and state_change events emitted
\* by the manager's current session are re-emitted by the manager once each,
\* with the same payload and in the same order.
C24_EventForwarding == Payloads(FromCurrentSession) = Payloads(FromManager)

\* The states carried by the state_change events session sid emitted in the
\* last handler, in emission order.
Carried(es, sid) ==
  LET cs == SelectSeq(es, LAMBDA e : e.src = "session" /\ e.ev = "state_change"
                                     /\ e.sid = sid)
  IN [i \in 1..Len(cs) |-> cs[i].arg]

\* C26: in every handler each state_change a session emits carries a state
\* different from the one it was in (one event per change, none for no
\* change), and the state it ends in is the one carried by its last
\* state_change (the state before the handler, Disconnected for a new
\* session, when it emitted none).
C26_StateChangeEmission ==
  [][\A sid \in 1..Len(sessions') :
       LET before == IF sid \in Sessions THEN sessions[sid].state ELSE DISCONNECTED
           chain == <<before>> \o Carried(emits', sid)
       IN /\ \A i \in 1..(Len(chain) - 1) : chain[i + 1] # chain[i]
          /\ sessions'[sid].state = chain[Len(chain)]]_vars
\* a session has emitted two state_change events in one handler and is in
\* the state the second carried
C26_Witness ==
  \E sid \in Sessions :
    /\ Len(Carried(emits, sid)) = 2
    /\ sessions[sid].state = Carried(emits, sid)[2]

\* C21: no session has a reconnect timer pending while it is Connecting or
\* Connected: connect() leaves no timer behind when it starts an attempt.
C21_NoTimerWhileConnecting ==
  \A sid \in Sessions :
    sessions[sid].timer => sessions[sid].state \notin {CONNECTING, CONNECTED}

\* C23: the transport of a connection attempt that is over (its close was
\* processed, or its session was disconnected or replaced) never opens
\* afterwards, so it causes no open event and no Connected state_change.
C23_NoOpenAfterEnd ==
  [][\A k \in Socks :
       socks[k].ended => ~(socks[k].rs # "open" /\ socks'[k].rs = "open")]_vars

\* The reconnect timers pending in the sessions, and the transports that
\* are connecting or open.
TimersPending == {sid \in Sessions : sessions[sid].timer}
TransportsAlive == {k \in Socks : socks[k].rs \in {"connecting", "open"}}

\* C27: getConnectionManager(), getConnection() and
\* getWebSocketManagerFactory() called while the singleton they read is not
\* initialised throw, and the step builds no instance, starts no timer or
\* interval, opens no connection and leaves the singleton uninitialised.
C27_GetBeforeInitThrows ==
  [][/\ (facadeCall'.fn \in {"getConnectionManager", "getConnection"} /\ ~poolBuilt) =>
          /\ facadeCall'.ret = "throws"
          /\ ~poolBuilt'
          /\ connection' = -1
          /\ probes' = NoProbes
          /\ retryTimers' = 0
          /\ ~healthCheckIntervalId'
          /\ replaced' = replaced
     /\ (facadeCall'.fn = "getWebSocketManagerFactory" /\ ~FactoryBuilt) =>
          /\ facadeCall'.ret = "throws"
          /\ ~FactoryBuilt'
          /\ sessions' = <<>>
          /\ socks' = <<>>]_vars
C27_Witness ==
  /\ facadeCall = FacadeCall("getConnection", 0, "throws")
  /\ ~poolBuilt
  /\ FactoryBuilt

\* C28: a ConnectionManager that initConnectionManager has stopped and
\* replaced starts no connection attempt any more.
C28_ReplacedNeverConnects ==
  [][\A i \in 1..Len(replaced) : \A endpoint \in 0..(httpsEndpoints - 1) :
        replaced'[i].probes[<<"connect", endpoint>>]
          <= replaced[i].probes[<<"connect", endpoint>>]]_vars

\* C29: an init handed an empty endpoint list throws, and the step starts no
\* connection attempt, no timer and no health check interval, and sets no
\* instance.
C29_EmptyListThrows ==
  [][/\ (facadeCall'.fn = "initConnectionManager" /\ facadeCall'.n = 0) =>
          /\ facadeCall'.ret = "throws"
          /\ poolBuilt' = poolBuilt
          /\ connection' = connection
          /\ probes' = probes
          /\ retryTimers' = retryTimers
          /\ ~healthCheckIntervalId'
          /\ replaced' = replaced
     /\ (facadeCall'.fn = "initWebSocketManagerFactory" /\ facadeCall'.n = 0) =>
          /\ facadeCall'.ret = "throws"
          /\ FactoryBuilt' = FactoryBuilt
          /\ Len(sessions') = Len(sessions)
          /\ Len(socks') = Len(socks)
          /\ TimersPending' \subseteq TimersPending
          /\ TransportsAlive' \subseteq TransportsAlive]_vars
C29_Witness ==
  /\ facadeCall = FacadeCall("initConnectionManager", 0, "throws")
  /\ ~poolBuilt
  /\ probes = NoProbes
  /\ ~healthCheckIntervalId

\* C35: the connected event of the pool carries the endpoint that is current
\* when it is emitted, and the Connection held then was built for it.
C35_ConnectedIsCurrent ==
  poolEmitted # -1 => (poolEmitted = poolIndex /\ connection = poolEmitted)

\* C33: whenever the pool holds a Connection, it was built for the endpoint
\* at currentEndpointIndex.
C33_ClientBoundToCurrent == connection # -1 => connection = poolIndex

\* C31: every request a request handler issues goes to the endpoint that is
\* the pool's current one when it is issued.
C31_RequestsGoToCurrent ==
  \A i \in 1..Len(requests) : requests[i] = poolIndex

RECURSIVE Pow(_, _)
Pow(b, k) == IF k = 0 THEN 1 ELSE b * Pow(b, k - 1)

\* base = min(initial * 1.5^k, ceiling), without fractions
EscalatedBase(base, initial, k, ceiling) ==
  IF initial * Pow(3, k) >= ceiling * Pow(2, k)
  THEN base = ceiling
  ELSE base * Pow(2, k) = initial * Pow(3, k)

\* C32: a reconnect scheduled after k + 1 failed attempts in a row (the
\* attempt counter is k + 1 while its timer is pending) has the base delay
\* min(initial * 1.5^k, ceiling), and its delay is within 0.85 and 1.15
\* times that base for every jitter.  Delays are in hundredths of a
\* millisecond.
C32_BackoffEscalation ==
  \A sid \in Sessions :
    (sessions[sid].timer /\ sessions[sid].retryCount >= 1) =>
      /\ EscalatedBase(sessions[sid].backoffTime, SessionInitialBackoff,
                       sessions[sid].retryCount - 1, SessionMaxBackoff)
      /\ \A j \in JitterPercents :
           LET d == Delay100(sessions[sid].backoffTime, j) IN
           /\ d >= 85 * sessions[sid].backoffTime
           /\ d <= 115 * sessions[sid].backoffTime

\* The transports that carry the listeners of a session.
Listened(sid) == {k \in SocksOf(sid) : socks[k].listening}

\* C34: at most one transport carries the listeners of a session, and it is
\* the one the session holds in this.ws.
C34_OneListenedTransport ==
  \A sid \in Sessions :
    /\ Cardinality(Listened(sid)) <= 1
    /\ \A k \in Listened(sid) : sessions[sid].ws = k

\* A session other than the one the manager holds, or one of its
\* transports, has changed in the step: one of its handlers has run.
ReplacedActs ==
  \/ \E sid \in Sessions : sid # wsManager /\ sessions'[sid] # sessions[sid]
  \/ \E k \in Socks : socks[k].owner # wsManager /\ socks'[k] # socks[k]

\* C36: a handler of a replaced session makes the manager emit nothing (no
\* message, error or state_change, and no open, which would make the caller
\* send) and leaves the manager's counter, flag, index, failed set and
\* session as they are.
C36_ReplacedSessionUnheard ==
  [][ReplacedActs =>
       /\ \A i \in 1..Len(emits') : emits'[i].src # "factory"
       /\ \A i \in 1..Len(log') : log'[i].ev # "send"
       /\ primaryFailCount' = primaryFailCount
       /\ isReconnecting' = isReconnecting
       /\ currentEndpointIndex' = currentEndpointIndex
       /\ failedEndpoints' = failedEndpoints
       /\ wsManager' = wsManager]_vars
\* a replaced session has reconnected: its transport has opened and it has
\* emitted state_change(Connected)
C36_Witness ==
  \E i \in 1..Len(emits) :
    /\ emits[i].src = "session" /\ emits[i].sid # wsManager
    /\ emits[i].ev = "state_change" /\ emits[i].arg = CONNECTED
    /\ sessions[emits[i].sid].state = CONNECTED

PoolTornDown == poolBuilt /\ ~healthCheckIntervalId
\* disconnect() has run on the WebSocketManagerFactory the facade holds
FactoryTornDown ==
  /\ FactoryBuilt /\ ~callerOn
  /\ wsManager # 0 => /\ sessions[wsManager].state = DISCONNECTED
                      /\ sessions[wsManager].ws = 0
                      /\ ~sessions[wsManager].timer

\* C38: an init with an empty list while an instance exists stops or
\* disconnects that instance, throws, and leaves the facade holding the same
\* instance; a get() on a torn-down instance returns it.
C38_FailedInitKeepsTornDown ==
  [][/\ (poolBuilt /\ facadeCall'.fn = "initConnectionManager"
                   /\ facadeCall'.n = 0) =>
          /\ facadeCall'.ret = "throws"
          /\ PoolTornDown'
          /\ replaced' = replaced
          /\ httpsEndpoints' = httpsEndpoints
          /\ <<poolIndex, connection, poolState, probes, retryTimers>>'
               = <<poolIndex, connection, poolState, probes, retryTimers>>
     /\ (FactoryBuilt /\ facadeCall'.fn = "initWebSocketManagerFactory"
                      /\ facadeCall'.n = 0) =>
          /\ facadeCall'.ret = "throws"
          /\ FactoryTornDown'
          /\ wssEndpoints' = wssEndpoints
          /\ wsManager' = wsManager
          /\ Len(sessions') = Len(sessions)
     /\ (PoolTornDown /\ facadeCall'.fn = "getConnectionManager") =>
          facadeCall'.ret = "instance" /\ PoolTornDown'
     /\ (FactoryTornDown /\ facadeCall'.fn = "getWebSocketManagerFactory") =>
          facadeCall'.ret = "instance" /\ FactoryTornDown']_vars
\* both inits have failed on an existing instance and getConnectionManager()
\* has returned the stopped ConnectionManager
C38_Witness ==
  /\ PoolTornDown /\ FactoryTornDown /\ wsManager # 0
  /\ facadeCall = FacadeCall("getConnectionManager", 0, "instance")

\* C39: the counter is the number of processTransaction calls in flight and
\* stays within 0..MAX_CONCURRENT; a pool-creation message that arrives at
\* the limit is dropped and starts nothing; with nothing in flight the
\* counter is 0.
C39_ConcurrentLimit ==
  [][/\ activeTransactions' = processing'
     /\ 0 <= activeTransactions' /\ activeTransactions' <= MAX_CONCURRENT
     /\ (lastMessage' \in {"dropped", "processed"}
           /\ activeTransactions >= MAX_CONCURRENT) =>
          /\ lastMessage' = "dropped"
          /\ processing' = processing
          /\ activeTransactions' = activeTransactions
     /\ lastMessage' = "processed" => processing' = processing + 1
     /\ processing' = 0 => activeTransactions' = 0]_vars
\* two transactions are in flight at a limit of 2 and a third pool-creation
\* message has just been dropped
C39_Witness ==
  /\ MAX_CONCURRENT = 2 /\ lastMessage = "dropped"
  /\ activeTransactions = 2 /\ processing = 2
====
